---- MODULE Spec2Model ----
(***************************************************************************)
(* Model of physo/learn/loss.py: safe_cross_entropy and loss_func.         *)
(*                                                                         *)
(* Numbers.  A tensor entry is an IEEE special (nan, +inf, -inf) or an     *)
(* exact finite value  (n[1] + SUM_i n[i+1] * ln(PrimeList[i])) / d.       *)
(* 1 and the logarithms of the primes are linearly independent over the    *)
(* rationals, so a finite value has exactly one reduced representation and *)
(* equality of values is equality of records.  Logits are ln(m) for small  *)
(* integers m (or a special), which makes softmax and log_softmax exact:   *)
(* exp(ln m) = m, and the logarithm of a rational is a combination of      *)
(* logarithms of primes.  Rounding of float32/float64 is not modelled.     *)
(*                                                                         *)
(* Tensors are nested sequences indexed from 1; the time step t of the     *)
(* source is index t + 1.  Elementwise operations broadcast as numpy and   *)
(* torch do: two sizes of a dimension agree when equal or when one is 1.   *)
(***************************************************************************)
EXTENDS Integers, Sequences, FiniteSets

\* ------------------------------------------------------------------ bounds
\* max_time_step of the batches explored
MaxT == 2
\* n_train of the batches explored
MaxN == 2
\* n_choices of the batches explored
MaxC == 2
\* finite logits are ln(1) .. ln(MaxLogit)
MaxLogit == 2

\* --------------------------------------------------------------- numbers
PrimeList == <<2, 3, 5, 7>>
Dim == Len(PrimeList) + 1
\* the sequence s itself, written out entry by entry (each entry is then
\* evaluated once, however often it is read)
Explicit(s) == s \o <<>>
Zeros == Explicit([i \in 1..Dim |-> 0])

Abs(a) == IF a < 0 THEN -a ELSE a

RECURSIVE Gcd(_, _)
Gcd(a, b) == IF b = 0 THEN a ELSE Gcd(b, a % b)

RECURSIVE GcdSeq(_, _, _)
GcdSeq(n, i, g) == IF i > Len(n) THEN g ELSE GcdSeq(n, i + 1, Gcd(g, Abs(n[i])))

\* the reduced finite value (n / d), d # 0
Fin(n, d) ==
    LET m == Explicit(n)
        s == IF d < 0 THEN -1 ELSE 1
        g == GcdSeq(m, 1, Abs(d))
    IN  [k |-> "fin", n |-> Explicit([i \in 1..Dim |-> (s * m[i]) \div g]),
         d |-> (s * d) \div g]

Rat(a, b) == Fin([i \in 1..Dim |-> IF i = 1 THEN a ELSE 0], b)
NaN  == [k |-> "nan",  n |-> Zeros, d |-> 1]
PInf == [k |-> "pinf", n |-> Zeros, d |-> 1]
NInf == [k |-> "ninf", n |-> Zeros, d |-> 1]
Zero == Rat(0, 1)
One  == Rat(1, 1)

IsFin(x) == x.k = "fin"
IsNaN(x) == x.k = "nan"
IsInf(x) == x.k \in {"pinf", "ninf"}
\* a finite value with no logarithm in it
IsRat(x) == IsFin(x) /\ \A i \in 2..Dim : x.n[i] = 0
\* x == 0 of the source: true of the finite value 0 only
IsZero(x) == IsFin(x) /\ \A i \in 1..Dim : x.n[i] = 0

RECURSIVE Pow(_, _)
Pow(b, e) == IF e = 0 THEN 1 ELSE b * Pow(b, e - 1)

RECURSIVE ProdPow(_, _, _)
\* the product of PrimeList[i-1]^(sgn * n[i]) over the i >= 2 with sgn * n[i] > 0
ProdPow(n, i, sgn) ==
    IF i > Dim THEN 1
    ELSE (IF sgn * n[i] > 0 THEN Pow(PrimeList[i - 1], sgn * n[i]) ELSE 1)
         * ProdPow(n, i + 1, sgn)

\* -1, 0 or 1: the sign of a value that is rational or a pure combination of
\* logarithms (ln(a/b) has the sign of a - b); no other value is compared
Sign(x) ==
    CASE x.k = "pinf" -> 1
      [] x.k = "ninf" -> -1
      [] IsRat(x) -> IF x.n[1] > 0 THEN 1 ELSE IF x.n[1] < 0 THEN -1 ELSE 0
      [] IsFin(x) /\ ~IsRat(x) /\ x.n[1] = 0 ->
            LET a == ProdPow(x.n, 2, 1)
                b == ProdPow(x.n, 2, -1)
            IN  IF a > b THEN 1 ELSE IF a < b THEN -1 ELSE 0

Neg(x) ==
    CASE x.k = "nan"  -> NaN
      [] x.k = "pinf" -> NInf
      [] x.k = "ninf" -> PInf
      [] x.k = "fin"  -> Fin([i \in 1..Dim |-> -x.n[i]], x.d)

Add(x, y) ==
    CASE IsNaN(x) \/ IsNaN(y) -> NaN
      [] IsInf(x) /\ IsInf(y) -> IF x.k = y.k THEN x ELSE NaN
      [] IsInf(x) /\ IsFin(y) -> x
      [] IsFin(x) /\ IsInf(y) -> y
      [] IsFin(x) /\ IsFin(y) ->
            Fin([i \in 1..Dim |-> x.n[i] * y.d + y.n[i] * x.d], x.d * y.d)

Sub(x, y) == Add(x, Neg(y))

\* the product; of two finite values one is rational (the source multiplies
\* by probabilities, masks, rewards and weights only)
Mul(x, y) ==
    CASE IsNaN(x) \/ IsNaN(y) -> NaN
      [] IsInf(x) /\ ~IsNaN(y) ->
            IF Sign(y) = 0 THEN NaN ELSE IF Sign(x) * Sign(y) > 0 THEN PInf ELSE NInf
      [] IsFin(x) /\ IsInf(y) ->
            IF Sign(x) = 0 THEN NaN ELSE IF Sign(x) * Sign(y) > 0 THEN PInf ELSE NInf
      [] IsFin(x) /\ IsFin(y) /\ IsRat(x) ->
            Fin([i \in 1..Dim |-> x.n[1] * y.n[i]], x.d * y.d)
      [] IsFin(x) /\ IsFin(y) /\ ~IsRat(x) /\ IsRat(y) ->
            Fin([i \in 1..Dim |-> y.n[1] * x.n[i]], x.d * y.d)

\* the quotient by a rational or a special value
Div(x, y) ==
    CASE IsNaN(x) \/ IsNaN(y) -> NaN
      [] IsInf(y) /\ ~IsNaN(x) -> IF IsInf(x) THEN NaN ELSE Zero
      [] IsRat(y) /\ ~IsNaN(x) /\ y.n[1] = 0 ->
            IF Sign(x) = 0 THEN NaN ELSE IF Sign(x) > 0 THEN PInf ELSE NInf
      [] IsRat(y) /\ ~IsNaN(x) /\ y.n[1] # 0 -> Mul(x, Rat(y.d, y.n[1]))

\* exp of a special value or of ln(a/b)
Exp(x) ==
    CASE x.k = "nan"  -> NaN
      [] x.k = "pinf" -> PInf
      [] x.k = "ninf" -> Zero
      [] x.k = "fin" /\ x.n[1] = 0 /\ x.d = 1 ->
            Rat(ProdPow(x.n, 2, 1), ProdPow(x.n, 2, -1))

RECURSIVE Mult(_, _)
\* how often the prime p divides a >= 1
Mult(a, p) == IF a % p = 0 THEN 1 + Mult(a \div p, p) ELSE 0

\* the exponents of the primes of PrimeList in a >= 1 (entry 1 is unused)
Exponents(a) ==
    Explicit([i \in 1..Dim |-> IF i = 1 THEN 0 ELSE Mult(a, PrimeList[i - 1])])

\* ln of a special value or of a rational whose primes are in PrimeList
Ln(x) ==
    CASE x.k = "nan"  -> NaN
      [] x.k = "pinf" -> PInf
      [] x.k = "ninf" -> NaN
      [] IsRat(x) /\ x.n[1] < 0 -> NaN
      [] IsRat(x) /\ x.n[1] = 0 -> NInf
      [] IsRat(x) /\ x.n[1] > 0
         /\ ProdPow(Exponents(x.n[1]), 2, 1) = x.n[1]
         /\ ProdPow(Exponents(x.d), 2, 1) = x.d ->
            Fin([i \in 1..Dim |-> Exponents(x.n[1])[i] - Exponents(x.d)[i]], 1)

\* ln(m) for an integer m >= 1
LnInt(m) == Ln(Rat(m, 1))

RECURSIVE SumSeq(_, _)
\* the sum of s[1..i], added left to right
SumSeq(s, i) == IF i = 0 THEN Zero ELSE Add(SumSeq(s, i - 1), s[i])

RECURSIVE MaxSeq(_, _)
\* the maximum of s[1..i], i >= 1; nan if any entry is nan
MaxSeq(s, i) ==
    IF i = 1 THEN s[1]
    ELSE LET m == MaxSeq(s, i - 1)
         IN  IF IsNaN(m) \/ IsNaN(s[i]) THEN NaN
             ELSE IF m = s[i] THEN m
             ELSE IF Sign(Sub(s[i], m)) > 0 THEN s[i] ELSE m

\* --------------------------------------------------------------- tensors
\* the size two broadcast dimensions agree on (0 for an empty dimension);
\* -1 when they do not agree
BDim(a, b) == IF a = b THEN a ELSE IF a = 1 THEN b ELSE IF b = 1 THEN a ELSE -1
\* the index read in a dimension of size d when the result's index is i
Ix(i, d) == IF d = 1 THEN 1 ELSE i

Shape2(x) == <<Len(x), Len(x[1])>>
Shape3(x) == <<Len(x), Len(x[1]), Len(x[1][1])>>

Broadcastable1(x, y) == BDim(Len(x), Len(y)) # -1
Broadcastable2(x, y) ==
    \A i \in 1..2 : BDim(Shape2(x)[i], Shape2(y)[i]) # -1
Broadcastable3(x, y) ==
    \A i \in 1..3 : BDim(Shape3(x)[i], Shape3(y)[i]) # -1

\* x * y of 1-d tensors, elementwise with broadcasting
Times1(x, y) ==
    Explicit([i \in 1..BDim(Len(x), Len(y)) |-> Mul(x[Ix(i, Len(x))], y[Ix(i, Len(y))])])
\* x * y of 2-d tensors, elementwise with broadcasting
Times2(x, y) ==
    LET sx == Shape2(x)
        sy == Shape2(y)
    IN  Explicit([i \in 1..BDim(sx[1], sy[1]) |->
            Explicit([j \in 1..BDim(sx[2], sy[2]) |->
                Mul(x[Ix(i, sx[1])][Ix(j, sx[2])], y[Ix(i, sy[1])][Ix(j, sy[2])])])])

\* x.transpose() of a 2-d array
Transpose(x) ==
    Explicit([j \in 1..Len(x[1]) |-> Explicit([i \in 1..Len(x) |-> x[i][j]])])
\* np.tile(row, (reps, 1)): reps copies of a 1-d array, stacked
Tile(row, reps) == Explicit([i \in 1..reps |-> row])
\* torch.sum(x, dim=0) of a 2-d tensor
SumDim0(x) ==
    Explicit([j \in 1..Len(x[1]) |->
        SumSeq(Explicit([i \in 1..Len(x) |-> x[i][j]]), Len(x))])
\* torch.sum(x, dim=2) of a 3-d tensor
SumDim2(x) ==
    Explicit([i \in 1..Len(x) |->
        Explicit([j \in 1..Len(x[i]) |-> SumSeq(x[i][j], Len(x[i][j]))])])
\* torch.mean(x) of a 1-d tensor
Mean(x) == Div(SumSeq(x, Len(x)), Rat(Len(x), 1))

\* ------------------------------------------------------- the source's steps
\* logq without the guard
SafeLogqUnguarded(p, logq) == logq
\* torch.where(p == 0, torch.ones_like(logq), logq), one entry
SafeLogq(p, logq) == IF IsZero(p) THEN One ELSE logq
\* p * safe_logq, one entry
GuardedTerm(p, logq) == Mul(p, SafeLogq(p, logq))

\* p * safe_logq of two 3-d tensors, elementwise with broadcasting
GuardedProduct(p, logq) ==
    LET sx == Shape3(p)
        sy == Shape3(logq)
    IN  Explicit([i \in 1..BDim(sx[1], sy[1]) |->
            Explicit([j \in 1..BDim(sx[2], sy[2]) |->
                Explicit([c \in 1..BDim(sx[3], sy[3]) |->
                    GuardedTerm(p[Ix(i, sx[1])][Ix(j, sx[2])][Ix(c, sx[3])],
                                logq[Ix(i, sy[1])][Ix(j, sy[2])][Ix(c, sy[3])])])])])

\* safe_cross_entropy(p, logq, dim=2) of two 3-d tensors
safe_cross_entropy(p, logq) ==
    LET s == SumDim2(GuardedProduct(p, logq))
    IN  Explicit([i \in 1..Len(s) |-> Explicit([j \in 1..Len(s[i]) |-> Neg(s[i][j])])])

\* np.arange(0, max_time_step)
Arange(T) == Explicit([i \in 1..T |-> i - 1])
\* the comparison with <= for <
LessOrEqual(t, len) == t <= len
\* one entry of the comparison ... < ..., as bool
Less(t, len) == t < len
\* astype(float) of a bool
AsFloat(b) == IF b THEN One ELSE Zero

\* x < y of 2-d arrays, elementwise with broadcasting
LessThan(x, y) ==
    LET sx == Shape2(x)
        sy == Shape2(y)
    IN  Explicit([i \in 1..BDim(sx[1], sy[1]) |->
            Explicit([j \in 1..BDim(sx[2], sy[2]) |->
                Less(x[Ix(i, sx[1])][Ix(j, sx[2])], y[Ix(i, sy[1])][Ix(j, sy[2])])])])

\* lines 44-45: may the two arrays be compared
MaskShapesAgree(T, N, lens) ==
    Broadcastable2(Tile(Arange(T), N), Transpose(Tile(lens, T)))
\* lines 44-46: mask_length_np
MaskLength(T, N, lens) ==
    LET cmp == LessThan(Tile(Arange(T), N), Transpose(Tile(lens, T)))
        tr  == Transpose(cmp)
    IN  Explicit([i \in 1..Len(tr) |->
            Explicit([j \in 1..Len(tr[i]) |-> AsFloat(tr[i][j])])])

RECURSIVE NumPow(_, _)
\* gamma_decay ** t
NumPow(g, t) == IF t = 0 THEN One ELSE Mul(NumPow(g, t - 1), g)
\* the decay counted from gamma_decay ** 1
EntropyGammaDecayFromOne(g, T) == Explicit([i \in 1..T |-> NumPow(g, i)])
\* line 52: entropy_gamma_decay
EntropyGammaDecay(g, T) == Explicit([i \in 1..T |-> NumPow(g, i - 1)])
\* lines 53-54: entropy_decay_mask_np
EntropyDecayMask(g, T, N, mask) ==
    Times2(Transpose(Tile(EntropyGammaDecay(g, T), N)), mask)

\* a row of logits shifted by its maximum
Shifted(row) ==
    LET m == MaxSeq(row, Len(row))
    IN  Explicit([c \in 1..Len(row) |-> Sub(row[c], m)])
\* torch.nn.functional.softmax of one row
SoftmaxRow(row) ==
    LET sh == Shifted(row)
        e  == Explicit([c \in 1..Len(row) |-> Exp(sh[c])])
        s  == SumSeq(e, Len(e))
    IN  Explicit([c \in 1..Len(row) |-> Div(e[c], s)])
\* torch.nn.functional.log_softmax of one row
LogSoftmaxRow(row) ==
    LET sh == Shifted(row)
        e  == Explicit([c \in 1..Len(row) |-> Exp(sh[c])])
        s  == SumSeq(e, Len(e))
        ln == Ln(s)
    IN  Explicit([c \in 1..Len(row) |-> Sub(sh[c], ln)])
\* line 60: softmax(logits_train, dim=2)
Softmax(x) ==
    Explicit([i \in 1..Len(x) |-> Explicit([j \in 1..Len(x[i]) |-> SoftmaxRow(x[i][j])])])
\* line 61: log_softmax(logits_train, dim=2)
LogSoftmax(x) ==
    Explicit([i \in 1..Len(x) |->
        Explicit([j \in 1..Len(x[i]) |-> LogSoftmaxRow(x[i][j])])])

\* line 66 and line 76: torch.sum(per_step * mask, dim=0)
MaskedSum(per_step, mask) == SumDim0(Times2(per_step, mask))
\* line 69: torch.mean((R_train - baseline) * neglogp)
LossGp(R, b, nlp) ==
    Mean(Times1(Explicit([n \in 1..Len(R) |-> Sub(R[n], b)]), nlp))
\* the entropy term without its weight
LossEntropyUnweighted(w, ent) == Neg(Mean(ent))
\* line 78: -entropy_weight * torch.mean(entropy)
LossEntropy(w, ent) == Mul(Neg(w), Mean(ent))

\* ------------------------------------------------------------------ state
VARIABLES
    logits_train, ideal_probs_train, R_train, baseline, lengths, gamma_decay,
    entropy_weight,                     \* the arguments of the call
    pc,                                 \* the statement loss_func executes next
    mask_length, entropy_decay_mask, probs, logprobs, neglogp_per_step, neglogp,
    loss_gp, entropy_per_step, entropy, loss_entropy, loss,  \* its locals
    earlier                             \* what the caller kept of an earlier call

args == <<logits_train, ideal_probs_train, R_train, baseline, lengths, gamma_decay,
          entropy_weight>>
locals == <<mask_length, entropy_decay_mask, probs, logprobs, neglogp_per_step, neglogp,
            loss_gp, entropy_per_step, entropy, loss_entropy, loss>>
vars == <<args, pc, locals, earlier>>

\* a local not yet assigned
Unset == [k |-> "unset", n |-> Zeros, d |-> 1]
NoCall == [made |-> FALSE, logits |-> <<>>, result |-> "none",
           neglogp |-> <<>>, entropy |-> <<>>, loss |-> Unset]

\* the caller has built the arguments and calls loss_func
Enter(lg, ip, R, b, lens, g, w) ==
    /\ logits_train = lg
    /\ ideal_probs_train = ip
    /\ R_train = R
    /\ baseline = b
    /\ lengths = lens
    /\ gamma_decay = g
    /\ entropy_weight = w
    /\ pc = "length_mask"
    /\ mask_length = <<>>
    /\ entropy_decay_mask = <<>>
    /\ probs = <<>>
    /\ logprobs = <<>>
    /\ neglogp_per_step = <<>>
    /\ neglogp = <<>>
    /\ loss_gp = Unset
    /\ entropy_per_step = <<>>
    /\ entropy = <<>>
    /\ loss_entropy = Unset
    /\ loss = Unset
    /\ earlier = NoCall

\* (max_time_step, n_train, n_choices,) = ideal_probs_train.shape
max_time_step == Len(ideal_probs_train)
n_train == Len(ideal_probs_train[1])
n_choices == Len(ideal_probs_train[1][1])

\* lines 39-47
LengthMask ==
    /\ pc = "length_mask"
    /\ IF MaskShapesAgree(max_time_step, n_train, lengths)
       THEN /\ mask_length' = MaskLength(max_time_step, n_train, lengths)
            /\ pc' = "entropy_mask"
       ELSE /\ pc' = "raised"
            /\ UNCHANGED mask_length
    /\ UNCHANGED <<args, earlier, entropy_decay_mask, probs, logprobs, neglogp_per_step,
                   neglogp, loss_gp, entropy_per_step, entropy, loss_entropy, loss>>

\* lines 52-55
EntropyMask ==
    /\ pc = "entropy_mask"
    /\ entropy_decay_mask' =
           EntropyDecayMask(gamma_decay, max_time_step, n_train, mask_length)
    /\ pc' = "softmax"
    /\ UNCHANGED <<args, earlier, mask_length, probs, logprobs, neglogp_per_step,
                   neglogp, loss_gp, entropy_per_step, entropy, loss_entropy, loss>>

\* lines 60-61
Normalize ==
    /\ pc = "softmax"
    /\ probs' = Softmax(logits_train)
    /\ logprobs' = LogSoftmax(logits_train)
    /\ pc' = "neglogp"
    /\ UNCHANGED <<args, earlier, mask_length, entropy_decay_mask, neglogp_per_step,
                   neglogp, loss_gp, entropy_per_step, entropy, loss_entropy, loss>>

\* lines 64-66
NegLogP ==
    /\ pc = "neglogp"
    /\ IF Broadcastable3(ideal_probs_train, logprobs)
       THEN /\ neglogp_per_step' = safe_cross_entropy(ideal_probs_train, logprobs)
            /\ IF Broadcastable2(neglogp_per_step', mask_length)
               THEN /\ neglogp' = MaskedSum(neglogp_per_step', mask_length)
                    /\ pc' = "loss_gp"
               ELSE /\ pc' = "raised"
                    /\ UNCHANGED neglogp
       ELSE /\ pc' = "raised"
            /\ UNCHANGED <<neglogp_per_step, neglogp>>
    /\ UNCHANGED <<args, earlier, mask_length, entropy_decay_mask, probs, logprobs,
                   loss_gp, entropy_per_step, entropy, loss_entropy, loss>>

\* line 69
PolicyGradient ==
    /\ pc = "loss_gp"
    /\ IF Broadcastable1(R_train, neglogp)
       THEN /\ loss_gp' = LossGp(R_train, baseline, neglogp)
            /\ pc' = "entropy"
       ELSE /\ pc' = "raised"
            /\ UNCHANGED loss_gp
    /\ UNCHANGED <<args, earlier, mask_length, entropy_decay_mask, probs, logprobs,
                   neglogp_per_step, neglogp, entropy_per_step, entropy, loss_entropy,
                   loss>>

\* lines 74-76
Entropy ==
    /\ pc = "entropy"
    /\ entropy_per_step' = safe_cross_entropy(probs, logprobs)
    /\ IF Broadcastable2(entropy_per_step', entropy_decay_mask)
       THEN /\ entropy' = MaskedSum(entropy_per_step', entropy_decay_mask)
            /\ pc' = "loss"
       ELSE /\ pc' = "raised"
            /\ UNCHANGED entropy
    /\ UNCHANGED <<args, earlier, mask_length, entropy_decay_mask, probs, logprobs,
                   neglogp_per_step, neglogp, loss_gp, loss_entropy, loss>>

\* lines 78-83
Return ==
    /\ pc = "loss"
    /\ loss_entropy' = LossEntropy(entropy_weight, entropy)
    /\ loss' = Add(loss_gp, loss_entropy')
    /\ pc' = "done"
    /\ UNCHANGED <<args, earlier, mask_length, entropy_decay_mask, probs, logprobs,
                   neglogp_per_step, neglogp, loss_gp, entropy_per_step, entropy>>

\* one statement of loss_func
Call ==
    \/ LengthMask
    \/ EntropyMask
    \/ Normalize
    \/ NegLogP
    \/ PolicyGradient
    \/ Entropy
    \/ Return

\* ----------------------------------------------------- the caller's batches
\* the values an entry of logits_train takes
LogitVals == {LnInt(m) : m \in 1..MaxLogit} \cup {NInf, PInf, NaN}
\* a row of logits: v for the first choice, w for the others
LogitRow(v, w, C) == Explicit([c \in 1..C |-> IF c = 1 THEN v ELSE w])
\* an all-or-nothing target row
OneHot(k, C) == Explicit([c \in 1..C |-> IF c = k THEN One ELSE Zero])
\* the target rows: the one-hot rows and the uniform row, each summing to 1
IdealRows(C) == {OneHot(k, C) : k \in 1..C} \cup {[c \in 1..C |-> Rat(1, C)]}
\* the finite logits and one-hot targets of the steps a batch does not vary
PlainLogits(T, N, C) ==
    [t \in 1..T |-> [n \in 1..N |-> [c \in 1..C |-> LnInt(1 + ((t + n + c) % MaxLogit))]]]
PlainIdeal(T, N, C) ==
    [t \in 1..T |-> [n \in 1..N |-> OneHot(1 + ((t + n) % C), C)]]
\* x with the row of step t0 of sample n0 replaced
WithRow(x, t0, n0, row) == [x EXCEPT ![t0][n0] = row]
\* rewards 1, 2, ...
Rewards(N) == Explicit([n \in 1..N |-> Rat(n, 1)])
Gammas == {Rat(1, 2), One, Rat(2, 1)}

\* Batches of shape (MaxT, MaxN, MaxC) whose programs are of full length, but
\* for the first, of any length l (0 and beyond max_time_step included); one
\* step t0 of that program holds any row of logits (specials included) and any
\* target row.
Init ==
    \E l \in 0..(MaxT + 1), t0 \in 1..MaxT,
       v \in LogitVals, w \in {LnInt(1), NInf}, ir \in IdealRows(MaxC),
       b \in {Zero, One}, g \in {One, Rat(2, 1)}, ew \in {Zero, One} :
        Enter(WithRow(PlainLogits(MaxT, MaxN, MaxC), t0, 1, LogitRow(v, w, MaxC)),
              WithRow(PlainIdeal(MaxT, MaxN, MaxC), t0, 1, ir),
              Rewards(MaxN), b, [n \in 1..MaxN |-> IF n = 1 THEN l ELSE MaxT], g, ew)

Next == Call
Spec == Init /\ [][Next]_vars

\* Batches of every shape up to (MaxT, MaxN, MaxC) with every vector of
\* lengths and every decay; plain logits and targets.
InitMask ==
    \E T \in 1..MaxT, N \in 1..MaxN, g \in Gammas :
    \E lens \in [1..N -> 0..(T + 1)] :
        Enter(PlainLogits(T, N, MaxC), PlainIdeal(T, N, MaxC), Rewards(N), Zero,
              lens, g, One)

SpecMask == InitMask /\ [][Next]_vars

\* The single-sample scenario: T=2, N=1, C=2, lengths=[1], uniform logits and
\* target [1,0] at step 0, reward 1, baseline 0, no decay; the row of logits
\* and the target row of the masked step 1 are arbitrary.
InitScenario ==
    \E v \in LogitVals, w \in LogitVals, ir \in IdealRows(2), ew \in {Zero, One} :
        Enter(<< <<LogitRow(LnInt(1), LnInt(1), 2)>>, <<LogitRow(v, w, 2)>> >>,
              << <<OneHot(1, 2)>>, <<ir>> >>,
              <<One>>, Zero, <<1>>, One, ew)

SpecScenario == InitScenario /\ [][Next]_vars

\* what the caller keeps of the call that has ended
Kept == [made |-> TRUE, logits |-> logits_train, result |-> pc,
         neglogp |-> neglogp, entropy |-> entropy, loss |-> loss]

\* a new call of loss_func: its locals are not assigned yet
NewFrame ==
    /\ pc' = "length_mask"
    /\ mask_length' = <<>>
    /\ entropy_decay_mask' = <<>>
    /\ probs' = <<>>
    /\ logprobs' = <<>>
    /\ neglogp_per_step' = <<>>
    /\ neglogp' = <<>>
    /\ loss_gp' = Unset
    /\ entropy_per_step' = <<>>
    /\ entropy' = <<>>
    /\ loss_entropy' = Unset
    /\ loss' = Unset

\* the caller overwrites one logit of a padded step (t >= lengths[n]) and
\* calls loss_func a second time
PerturbPadded ==
    /\ pc \in {"done", "raised"}
    /\ ~earlier.made
    /\ \E t \in 1..Len(logits_train), n \in 1..Len(logits_train[1]),
          c \in 1..Len(logits_train[1][1]), v \in LogitVals :
          /\ t - 1 >= lengths[n]
          /\ v # logits_train[t][n][c]
          /\ logits_train' = [logits_train EXCEPT ![t][n][c] = v]
    /\ earlier' = Kept
    /\ NewFrame
    /\ UNCHANGED <<ideal_probs_train, R_train, baseline, lengths, gamma_decay,
                   entropy_weight>>

\* Batches of shape (MaxT, MaxN, MaxC) of plain logits and targets, with one
\* program of any length; the caller then overwrites a padded logit.
InitPad ==
    \E l \in 0..(MaxT + 1), n0 \in 1..MaxN, ew \in {Zero, One} :
        Enter(PlainLogits(MaxT, MaxN, MaxC), PlainIdeal(MaxT, MaxN, MaxC),
              Rewards(MaxN), Zero, [n \in 1..MaxN |-> IF n = n0 THEN l ELSE MaxT],
              One, ew)

NextPad == Call \/ PerturbPadded
SpecPad == InitPad /\ [][NextPad]_vars

\* The targets have shape (MaxT, MaxN, MaxC); each dimension of the logits, and
\* the lengths of R_train and of lengths, are 1, the matching size, or that
\* size plus one; the logits' last dimension and R_train may also be empty.
Sizes(d) == {1, d, d + 1}
SizesOrEmpty(d) == {0} \cup Sizes(d)
InitShape ==
    \E T \in Sizes(MaxT), N \in Sizes(MaxN), C \in SizesOrEmpty(MaxC),
       nr \in SizesOrEmpty(MaxN), nl \in Sizes(MaxN) :
        Enter(PlainLogits(T, N, C), PlainIdeal(MaxT, MaxN, MaxC), Rewards(nr),
              Zero, [n \in 1..nl |-> 1], One, One)

SpecShape == InitShape /\ [][Next]_vars

\* ------------------------------------------------------------- properties
Steps == 1..max_time_step
Samples == 1..n_train
\* the steps of sample n that are not padding (t < lengths[n])
ValidSteps(n) == {t \in Steps : t - 1 < lengths[n]}

RECURSIVE SumOver(_, _)
\* the sum of f over the finite set S of its domain
SumOver(f, S) ==
    IF S = {} THEN Zero
    ELSE LET x == CHOOSE y \in S : TRUE
         IN  Add(f[x], SumOver(f, S \ {x}))

\* C1: two calls whose inputs differ only in logits_train at padded steps
\* (t >= lengths[n]) return the same neglogp, entropy and loss.
C1_MaskInvariance ==
    (earlier.made /\ pc \in {"done", "raised"}) =>
        /\ pc = earlier.result
        /\ neglogp = earlier.neglogp
        /\ entropy = earlier.entropy
        /\ loss = earlier.loss

\* the shapes of the arguments disagree
ShapeMismatch ==
    \/ Shape3(logits_train) # Shape3(ideal_probs_train)
    \/ Len(R_train) # n_train
    \/ Len(lengths) # n_train

\* C2: whenever logits_train and ideal_probs_train differ in shape, or R_train
\* or lengths has a length other than N, the call fails and returns no loss.
C2_ShapeMismatchSurfaced == ShapeMismatch => (pc # "done" /\ loss = Unset)

\* a row of probabilities: finite, rational, not negative
IsProbRow(p) == \A c \in 1..Len(p) : IsRat(p[c]) /\ Sign(p[c]) >= 0
\* minus the sum of p*logq over the indices with p > 0 only
PositivePartCE(p, logq) ==
    Neg(SumOver([c \in 1..Len(p) |-> Mul(p[c], logq[c])],
                {c \in 1..Len(p) : Sign(p[c]) > 0}))

\* C3: safe_cross_entropy(p, logq) of a row of probabilities is minus the sum of
\* p*logq over the indices with p > 0: an index with p == 0 contributes 0,
\* whatever logq is there (-inf and nan included), and the others are unaltered.
\* Checked at both calls of the source (targets, and softmax probabilities).
C3_SafeCrossEntropy ==
    /\ neglogp_per_step # <<>> =>
         \A t \in Steps, n \in Samples :
            IsProbRow(ideal_probs_train[t][n]) =>
                neglogp_per_step[t][n]
                    = PositivePartCE(ideal_probs_train[t][n], logprobs[t][n])
    /\ entropy_per_step # <<>> =>
         \A t \in Steps, n \in Samples :
            IsProbRow(probs[t][n]) =>
                entropy_per_step[t][n] = PositivePartCE(probs[t][n], logprobs[t][n])

\* a target of 0 meets a log-probability of -inf, and the result is finite
C3_Witness ==
    /\ neglogp_per_step # <<>>
    /\ \E t \in Steps, n \in Samples, c \in 1..n_choices :
          /\ IsZero(ideal_probs_train[t][n][c])
          /\ logprobs[t][n][c] = NInf
          /\ IsFin(neglogp_per_step[t][n])

IsOneHot(p) == \E k \in 1..Len(p) : p = OneHot(k, Len(p))
\* the class a one-hot row chooses
Chosen(p) == CHOOSE k \in 1..Len(p) : p[k] = One

\* C4: if the targets are one-hot at every valid step, neglogp_per_step[t,n] is
\* -logprobs[t,n,c*] at each valid step and neglogp[n] is the sum of these over
\* t < lengths[n].
C4_OneHotNegLogP ==
    (/\ pc = "done"
     /\ \A n \in Samples : \A t \in ValidSteps(n) : IsOneHot(ideal_probs_train[t][n])) =>
        \A n \in Samples :
            /\ \A t \in ValidSteps(n) :
                  neglogp_per_step[t][n]
                      = Neg(logprobs[t][n][Chosen(ideal_probs_train[t][n])])
            /\ neglogp[n]
                  = SumOver([t \in Steps |->
                                Neg(logprobs[t][n][Chosen(ideal_probs_train[t][n])])],
                            ValidSteps(n))

\* mean_n[(R_train[n] - baseline) * neglogp[n]], over the full N
PolicyTerm ==
    Div(SumOver([n \in Samples |-> Mul(Sub(R_train[n], baseline), neglogp[n])], Samples),
        Rat(n_train, 1))
\* mean_n[entropy[n]], over the full N
EntropyTerm == Div(SumOver([n \in Samples |-> entropy[n]], Samples), Rat(n_train, 1))

\* C5: with entropy_weight = 0 the value returned is
\* loss_gp = mean_n[(R_train[n] - baseline) * neglogp[n]], whatever the entropy.
C5_ZeroEntropyWeight ==
    (pc = "done" /\ entropy_weight = Zero) => (loss = loss_gp /\ loss = PolicyTerm)

\* entropy_weight = 0, the entropy is not 0, and a finite loss is returned
C5_Witness ==
    /\ pc = "done"
    /\ entropy_weight = Zero
    /\ IsFin(EntropyTerm) /\ ~IsZero(EntropyTerm)
    /\ IsFin(loss) /\ ~IsZero(loss)

\* C6: the mask has shape (T, N) and length_mask[t,n] is 1 if t < lengths[n],
\* else 0, for every vector of lengths >= 0 (0 and >= T included).
C6_LengthMask ==
    (mask_length # <<>> /\ Len(lengths) = n_train) =>
        /\ Len(mask_length) = max_time_step
        /\ \A t \in Steps :
              /\ Len(mask_length[t]) = n_train
              /\ \A n \in Samples :
                    mask_length[t][n] = IF t - 1 < lengths[n] THEN One ELSE Zero

\* the mask of a batch with an empty program and one longer than max_time_step
C6_Witness ==
    /\ mask_length # <<>>
    /\ max_time_step >= 2
    /\ \E n \in Samples, m \in Samples :
          /\ lengths[n] = 0
          /\ lengths[m] > max_time_step
          /\ \A t \in Steps : mask_length[t][n] = Zero /\ mask_length[t][m] = One

\* gamma^t of a rational gamma
GammaPower(g, t) == Rat(Pow(g.n[1], t), Pow(g.d, t))

\* C7: entropy_decay_mask[t,n] = gamma_decay^t * length_mask[t,n]; with
\* gamma_decay = 1 the two masks are equal.
C7_EntropyDecayMask ==
    entropy_decay_mask # <<>> =>
        /\ Shape2(entropy_decay_mask) = Shape2(mask_length)
        /\ \A t \in Steps, n \in Samples :
              entropy_decay_mask[t][n]
                  = Mul(GammaPower(gamma_decay, t - 1), mask_length[t][n])
        /\ gamma_decay = One => entropy_decay_mask = mask_length

\* no decay, and a mask with both a valid and a padded step
C7_Witness ==
    /\ entropy_decay_mask # <<>>
    /\ gamma_decay = One
    /\ \E t \in Steps, n \in Samples : entropy_decay_mask[t][n] = One
    /\ \E t \in Steps, n \in Samples : t >= 2 /\ entropy_decay_mask[t][n] = Zero

\* C8: in the single-sample scenario the loss is -log(0.5) = ln(2) with
\* entropy_weight = 0 and 0 with entropy_weight = 1, whatever the logits of the
\* masked step 1.
C8_Scenario ==
    pc \in {"done", "raised"} =>
        /\ pc = "done"
        /\ loss = IF entropy_weight = Zero THEN LnInt(2) ELSE Zero

\* sum_t per_step[t,n] * mask[t,n]
MaskedTotal(per_step, mask, n) ==
    SumOver([t \in Steps |-> Mul(per_step[t][n], mask[t][n])], Steps)

\* C10: loss = mean_n[(R_train[n] - baseline) * neglogp[n]]
\*             - entropy_weight * mean_n[entropy[n]],
\* neglogp[n] = sum_t neglogp_per_step[t,n] * length_mask[t,n],
\* entropy[n] = sum_t entropy_per_step[t,n] * entropy_decay_mask[t,n],
\* both means over the full N; a sample with lengths[n] = 0 contributes 0 to
\* each sum and is still counted in the denominator.
C10_ReferenceFormula ==
    pc = "done" =>
        /\ Len(neglogp) = n_train /\ Len(entropy) = n_train
        /\ \A n \in Samples :
              /\ neglogp[n] = MaskedTotal(neglogp_per_step, mask_length, n)
              /\ entropy[n] = MaskedTotal(entropy_per_step, entropy_decay_mask, n)
              /\ lengths[n] = 0 => (neglogp[n] = Zero /\ entropy[n] = Zero)
        /\ loss = Sub(PolicyTerm, Mul(entropy_weight, EntropyTerm))

====
